---------------------------- MODULE Spec2Model ----------------------------
(***************************************************************************)
(* A model of pytest_bdd/gherkin_parser.py: the table model (DataTable     *)
(* transpose / to_dict), the AST builder (the from_dict conversions), the  *)
(* error classifier (handle_gherkin_parser_error over ERROR_PATTERNS) and  *)
(* the document loader (get_gherkin_document).                             *)
(*                                                                         *)
(* Each part has its own specification over the shared variables; the      *)
(* variables of the other parts stay at their idle values.                 *)
(***************************************************************************)
EXTENDS Integers, Sequences, FiniteSets, TLC

VARIABLES
    table,      \* the DataTable an operation of the table model is called on
    tcall,      \* the last table operation and what it returned or raised
    raw,        \* the raw (untyped) map handed to a from_dict, with its node type
    built,      \* what that from_dict returned or raised
    args,       \* the arguments of a handle_gherkin_parser_error call
    raised,     \* what handle_gherkin_parser_error raised (or that it returned)
    fs,         \* the file system: path -> the lines of the file
    cache,      \* linecache's module-level cache: path -> the lines it read
    call        \* the locals and the outcome of the last get_gherkin_document call

vars == <<table, tcall, raw, built, args, raised, fs, cache, call>>

(***************************************************************************)
(* Bounds of the model.                                                    *)
(***************************************************************************)
MaxRows == 3
MaxCols == 2
MaxTags == 2
MaxSteps == 2
MaxChildren == 2
MaxRuleDepth == 2
MaxDiagLines == 2
MaxFileLines == 1
MaxSubErrors == 2

(***************************************************************************)
(* Python values shared by the parts.                                      *)
(***************************************************************************)
\* Python's None, where a field is declared `X | None`.
None == [py |-> "None"]

Digits == <<"0", "1", "2", "3", "4", "5", "6", "7", "8", "9">>

\* str(n) for a non-negative int.
RECURSIVE Str(_)
Str(n) == IF n < 10 THEN Digits[n + 1] ELSE Str(n \div 10) \o Digits[(n % 10) + 1]

Max(S) == CHOOSE m \in S : \A x \in S : x <= m
Min(S) == CHOOSE m \in S : \A x \in S : m <= x

(***************************************************************************)
(* The table model: Location, Cell, Row, DataTable.                        *)
(***************************************************************************)
\* @dataclass Location: the positional order of its fields is (column, line).
Location(column, line) == [column |-> column, line |-> line]

Cell(location, value) == [location |-> location, value |-> value]

Row(id, location, cells) == [id |-> id, location |-> location, cells |-> cells]

DataTable(location, rows) == [location |-> location, rows |-> rows]

\* The cell transpose substitutes where a row is too short.
PlaceholderCell == Cell(Location(0, 0), "")


\* A plausible slip: the narrowest row decides the number of output rows.
max_columns_Min(cells_matrix) == Min({Len(cells_matrix[r]) : r \in 1..Len(cells_matrix)})

\* max(len(row) for row in cells_matrix)
max_columns(cells_matrix) == Max({Len(cells_matrix[r]) : r \in 1..Len(cells_matrix)})

\* The inner loop of transpose for one col_idx (0-based, as in the code).
transposed_column_Reversed(cells_matrix, col_idx) ==
    [r \in 1..Len(cells_matrix) |->
        LET row == cells_matrix[Len(cells_matrix) + 1 - r]
        IN  IF col_idx < Len(row) THEN row[col_idx + 1] ELSE Cell(Location(0, 0), "")]

transposed_column(cells_matrix, col_idx) ==
    [r \in 1..Len(cells_matrix) |->
        LET row == cells_matrix[r]
        IN  IF col_idx < Len(row) THEN row[col_idx + 1] ELSE PlaceholderCell]

\* DataTable.transpose: `ref` tells whether the object returned is self or a
\* new DataTable.
transpose(self) ==
    IF Len(self.rows) = 0
    THEN [ref |-> "self", value |-> self]
    ELSE LET cells_matrix == [r \in 1..Len(self.rows) |-> self.rows[r].cells]
             transposed_cells ==
                 [c \in 1..max_columns(cells_matrix) |->
                     Row(Str(c - 1), self.location,
                         transposed_column(cells_matrix, c - 1))]
         IN  [ref |-> "new", value |-> DataTable(self.location, transposed_cells)]

\* A Python dict as a function on its key set; d[k] = v overwrites.
EmptyDict == [k \in {} |-> <<>>]

DictPut_KeepFirst(d, k, v) ==
    [x \in DOMAIN d \cup {k} |-> IF x \in DOMAIN d THEN d[x] ELSE v]

DictPut(d, k, v) == [x \in DOMAIN d \cup {k} |-> IF x = k THEN v ELSE d[x]]

\* list(zip(*values_rows)): one tuple per column, as many as the shortest row has.
zip_rows(values_rows) ==
    IF Len(values_rows) = 0
    THEN <<>>
    ELSE [c \in 1..Min({Len(values_rows[r]) : r \in 1..Len(values_rows)}) |->
            [r \in 1..Len(values_rows) |-> values_rows[r][c]]]

\* The dict comprehension of to_dict, for i = from..len(header)-1 (0-based):
\* transposed_values[i] raises IndexError when i is out of range.
RECURSIVE result_dict(_, _, _, _)
result_dict(header, transposed_values, i, acc) ==
    IF i >= Len(header)
    THEN [exc |-> "none", value |-> acc]
    ELSE IF i >= Len(transposed_values)
         THEN [exc |-> "IndexError"]
         ELSE result_dict(header, transposed_values, i + 1,
                          DictPut(acc, header[i + 1], transposed_values[i + 1]))

\* DataTable.to_dict
to_dict(self) ==
    IF Len(self.rows) < 2
    THEN [exc |-> "ValueError"]
    ELSE LET header == [c \in 1..Len(self.rows[1].cells) |-> self.rows[1].cells[c].value]
             values_rows ==
                 [r \in 1..(Len(self.rows) - 1) |->
                     [c \in 1..Len(self.rows[r + 1].cells) |->
                         self.rows[r + 1].cells[c].value]]
         IN  result_dict(header, zip_rows(values_rows), 0, EmptyDict)

(***************************************************************************)
(* The tables the operations are tried on: up to MaxRows rows of up to     *)
(* MaxCols cells each (ragged tables included), two cell values.  Row ids  *)
(* and locations are what a parser would give: distinct, 1-based.          *)
(***************************************************************************)
CellValues == {"a", "b"}

CellValueSeqs == UNION {[1..m -> CellValues] : m \in 0..MaxCols}

TableLocation == Location(3, 1)

MkTable(content) ==
    DataTable(TableLocation,
        [r \in 1..Len(content) |->
            Row(Str(20 + r), Location(3, r + 1),
                [c \in 1..Len(content[r]) |->
                    Cell(Location(5 + 4 * (c - 1), r + 1), content[r][c])])])

Tables == {MkTable(content) : content \in UNION {[1..n -> CellValueSeqs] : n \in 0..MaxRows}}

IdleTable == [op |-> "none"]

\* The values the variables of the other parts keep while one part runs.
IdleValue == [idle |-> TRUE]

tableVars == <<table, tcall>>
builderVars == <<raw, built>>
classifierVars == <<args, raised>>
loaderVars == <<fs, cache, call>>

TableInit ==
    /\ table \in Tables
    /\ tcall = IdleTable
    /\ raw = IdleValue /\ built = IdleValue
    /\ args = IdleValue /\ raised = IdleValue
    /\ fs = IdleValue /\ cache = IdleValue /\ call = IdleValue

\* table.transpose()
Transpose ==
    /\ tcall.op = "none"
    /\ tcall' = [op |-> "transpose", self |-> table, ret |-> transpose(table)]
    /\ UNCHANGED <<table, builderVars, classifierVars, loaderVars>>

\* table.transpose().transpose()
TransposeAgain ==
    /\ tcall.op = "transpose"
    /\ tcall' = [op |-> "transpose2", self |-> tcall.self, first |-> tcall.ret,
                 ret |-> transpose(tcall.ret.value)]
    /\ UNCHANGED <<table, builderVars, classifierVars, loaderVars>>

\* table.to_dict()
ToDict ==
    /\ tcall.op = "none"
    /\ tcall' = [op |-> "to_dict", self |-> table, ret |-> to_dict(table)]
    /\ UNCHANGED <<table, builderVars, classifierVars, loaderVars>>


TableNext == Transpose \/ TransposeAgain \/ ToDict

TableSpec == TableInit /\ [][TableNext]_vars

(***************************************************************************)
(* Properties of the table model, checked under TableSpec.                 *)
(***************************************************************************)
\* The cell values of a row, in order.
RowValues(row) == [c \in 1..Len(row.cells) |-> row.cells[c].value]

\* All rows have the same number of cells.
Rectangular(t) ==
    \A r1, r2 \in 1..Len(t.rows) : Len(t.rows[r1].cells) = Len(t.rows[r2].cells)

\* The largest cell count of any row of a table with at least one row.
WidestRow(t) ==
    CHOOSE n \in 0..(MaxCols + 1) :
        /\ \E r \in 1..Len(t.rows) : Len(t.rows[r].cells) = n
        /\ \A r \in 1..Len(t.rows) : Len(t.rows[r].cells) <= n

\* C7: transpose of a table with at least one row returns a new table with
\* exactly max_columns rows of len(rows) cells each; cell r of output row c is
\* input row r's cell c where that row has one and otherwise an empty Cell at
\* Location(0, 0); output row c has id str(c) and the table's location.  The
\* input is left unchanged, and a table with no rows is returned as itself.
C7_TransposeShape ==
    tcall.op = "transpose" =>
        LET T == tcall.self
            R == tcall.ret
        IN  /\ table = T
            /\ IF Len(T.rows) = 0
               THEN R.ref = "self" /\ R.value = T
               ELSE /\ R.ref = "new"
                    /\ Len(R.value.rows) = WidestRow(T)
                    /\ \A c \in 1..Len(R.value.rows) :
                        LET out == R.value.rows[c]
                        IN  /\ out.id = Digits[c]
                            /\ out.location = T.location
                            /\ Len(out.cells) = Len(T.rows)
                            /\ \A r \in 1..Len(T.rows) :
                                out.cells[r] =
                                    IF c <= Len(T.rows[r].cells)
                                    THEN T.rows[r].cells[c]
                                    ELSE [location |-> [column |-> 0, line |-> 0],
                                          value |-> ""]

\* A ragged table was transposed: some output cell is a placeholder.
C7_Witness ==
    /\ tcall.op = "transpose"
    /\ Len(tcall.self.rows) >= 2
    /\ ~Rectangular(tcall.self)
    /\ tcall.ret.ref = "new"
    /\ \E c \in 1..Len(tcall.ret.value.rows) :
         \E r \in 1..Len(tcall.self.rows) :
            tcall.ret.value.rows[c].cells[r].location = Location(0, 0)

\* The double transpose has T's number of rows and T's values row by row.
SameContent(t, u) ==
    /\ Len(u.rows) = Len(t.rows)
    /\ \A r \in 1..Len(t.rows) : RowValues(u.rows[r]) = RowValues(t.rows[r])

\* C6 as stated: for every rectangular table T, of any number of rows and any
\* number of cells per row, transpose(transpose(T)) has the rows of T with
\* the same cell values.
C6_AsStated ==
    (tcall.op = "transpose2" /\ Rectangular(tcall.self)) =>
        SameContent(tcall.self, tcall.ret.value)

\* C6, amended: for every rectangular table T whose rows hold at least one
\* cell each, transpose(transpose(T)) has the rows of T with the same cell
\* values (row ids and locations apart).
C6_RoundTrip ==
    (/\ tcall.op = "transpose2"
     /\ Rectangular(tcall.self)
     /\ \A r \in 1..Len(tcall.self.rows) : Len(tcall.self.rows[r].cells) >= 1) =>
        SameContent(tcall.self, tcall.ret.value)

\* A rectangular table of two rows and two columns, not symmetric, went
\* through both transposes.
C6_Witness ==
    /\ tcall.op = "transpose2"
    /\ Rectangular(tcall.self)
    /\ Len(tcall.self.rows) >= 2
    /\ Len(tcall.self.rows[1].cells) >= 2
    /\ tcall.self.rows[1].cells[2].value # tcall.self.rows[2].cells[1].value
    /\ tcall.first.ref = "new"
    /\ tcall.ret.ref = "new"

\* C4: for a rectangular table of at least two rows, to_dict returns a
\* mapping whose keys are exactly the header values, each mapped to the
\* values of its column in rows 1..N in row order, the last such column when
\* a header value repeats; the table is left unchanged.
C4_ToDictMapping ==
    (/\ tcall.op = "to_dict"
     /\ Len(tcall.self.rows) >= 2
     /\ Rectangular(tcall.self)) =>
        LET T == tcall.self
            header == RowValues(T.rows[1])
            Column(c) == [r \in 1..(Len(T.rows) - 1) |-> T.rows[r + 1].cells[c].value]
        IN  /\ table = T
            /\ tcall.ret.exc = "none"
            /\ DOMAIN tcall.ret.value = {header[c] : c \in 1..Len(header)}
            /\ \A c \in 1..Len(header) :
                (\A d \in (c + 1)..Len(header) : header[d] # header[c]) =>
                    tcall.ret.value[header[c]] = Column(c)

\* A table with a repeated header value, two data rows, and columns that
\* differ was converted.
C4_Witness ==
    /\ tcall.op = "to_dict"
    /\ Len(tcall.self.rows) >= 3
    /\ Rectangular(tcall.self)
    /\ Len(tcall.self.rows[1].cells) >= 2
    /\ tcall.self.rows[1].cells[1].value = tcall.self.rows[1].cells[2].value
    /\ tcall.self.rows[2].cells[1].value # tcall.self.rows[2].cells[2].value
    /\ tcall.ret.exc = "none"

\* C5: to_dict fails whenever the table has fewer than two rows or some data
\* row's cell count differs from the header's, whether shorter or longer.
C5_ToDictRejectsMismatch ==
    (/\ tcall.op = "to_dict"
     /\ \/ Len(tcall.self.rows) < 2
        \/ \E r \in 2..Len(tcall.self.rows) :
              Len(tcall.self.rows[r].cells) # Len(tcall.self.rows[1].cells)) =>
        tcall.ret.exc # "none"

(***************************************************************************)
(* The AST builder.  A raw node is a map: a function on the keys it holds. *)
(* Strings a conversion rewrites (a Step's keyword, a Cell's value, a      *)
(* DocString's content) are sequences of characters; the others are        *)
(* atoms.  A from_dict returns Ok(node) or the KeyError it raised.         *)
(***************************************************************************)
Ok(v) == [ok |-> TRUE, v |-> v]

KeyError(k) == [ok |-> FALSE, exc |-> "KeyError", key |-> k]

\* data[k]
Item(data, k) == IF k \in DOMAIN data THEN Ok(data[k]) ELSE KeyError(k)

\* data.get(k)
Get(data, k) == IF k \in DOMAIN data THEN data[k] ELSE None

\* data.get(k, default)
GetOr_Required(data, k, default) == Item(data, k)

GetOr(data, k, default) == IF k \in DOMAIN data THEN Ok(data[k]) ELSE Ok(default)

\* The truth value of what data.get returned for a map-valued key: None and
\* the empty map are false.
Truthy(x) == x # None /\ DOMAIN x # {}

\* The arguments of a call are evaluated left to right: the first that raises
\* decides.
AllOk(rs) == \A i \in 1..Len(rs) : rs[i].ok

FirstFailure(rs) == rs[Min({i \in 1..Len(rs) : ~rs[i].ok})]

Values(rs) == [i \in 1..Len(rs) |-> rs[i].v]

\* cls.from_dict(data) for the class named; defined after the classes.
RECURSIVE from_dict(_, _)

\* cls.from_dict(x), when evaluating x did not raise.
Built(cls, r) == IF r.ok THEN from_dict(cls, r.v) ELSE r

\* [cls.from_dict(x) for x in xs], when evaluating xs did not raise.
ListOf_Reversed(cls, r) ==
    IF ~r.ok
    THEN r
    ELSE LET rs == [i \in 1..Len(r.v) |-> from_dict(cls, r.v[Len(r.v) + 1 - i])]
         IN  IF AllOk(rs) THEN Ok(Values(rs)) ELSE FirstFailure(rs)

ListOf(cls, r) ==
    IF ~r.ok
    THEN r
    ELSE LET rs == [i \in 1..Len(r.v) |-> from_dict(cls, r.v[i])]
         IN  IF AllOk(rs) THEN Ok(Values(rs)) ELSE FirstFailure(rs)

\* cls.from_dict(data[k]) if data.get(k) else None
Optional(cls, data, k) ==
    IF Truthy(Get(data, k)) THEN from_dict(cls, data[k]) ELSE Ok(None)

(***************************************************************************)
(* String conversions.                                                     *)
(***************************************************************************)
Whitespace == {" ", "\t", "\n", "\r"}

\* str.strip()
RECURSIVE lstrip(_)
lstrip(s) == IF s # <<>> /\ Head(s) \in Whitespace THEN lstrip(Tail(s)) ELSE s

\* str.rstrip(chars)
RECURSIVE rstrip_chars(_, _)
rstrip_chars(s, chars) ==
    IF s # <<>> /\ s[Len(s)] \in chars
    THEN rstrip_chars(SubSeq(s, 1, Len(s) - 1), chars)
    ELSE s

rstrip(s) == rstrip_chars(s, Whitespace)


strip(s) == rstrip(lstrip(s))

\* normal_string.replace("\\", "\\\\")
RECURSIVE _to_raw_string(_)
_to_raw_string(normal_string) ==
    IF normal_string = <<>>
    THEN <<>>
    ELSE (IF Head(normal_string) = "\\" THEN <<"\\", "\\">> ELSE <<Head(normal_string)>>)
            \o _to_raw_string(Tail(normal_string))

\* s.split(sep) for a one-character sep.
RECURSIVE Split(_, _)
Split(s, sep) ==
    IF \A i \in 1..Len(s) : s[i] # sep
    THEN <<s>>
    ELSE LET i == Min({j \in 1..Len(s) : s[j] = sep})
         IN  <<SubSeq(s, 1, i - 1)>> \o Split(SubSeq(s, i + 1, Len(s)), sep)

\* sep.join(parts)
RECURSIVE Join(_, _)
Join(parts, sep) ==
    IF parts = <<>>
    THEN <<>>
    ELSE IF Len(parts) = 1
         THEN parts[1]
         ELSE parts[1] \o <<sep>> \o Join(Tail(parts), sep)

\* str.splitlines(), for text whose only line boundary is "\n".
splitlines(s) ==
    IF s = <<>>
    THEN <<>>
    ELSE LET parts == Split(s, "\n")
         IN  IF parts[Len(parts)] = <<>> THEN SubSeq(parts, 1, Len(parts) - 1) ELSE parts

\* textwrap.dedent (blanks and tabs are its whitespace).
Blank == {" ", "\t"}

RECURSIVE LeadingBlank(_)
LeadingBlank(line) ==
    IF line # <<>> /\ Head(line) \in Blank
    THEN <<Head(line)>> \o LeadingBlank(Tail(line))
    ELSE <<>>

RECURSIVE CommonPrefix(_, _)
CommonPrefix(a, b) ==
    IF a # <<>> /\ b # <<>> /\ Head(a) = Head(b)
    THEN <<Head(a)>> \o CommonPrefix(Tail(a), Tail(b))
    ELSE <<>>

StartsWith(s, prefix) ==
    Len(prefix) <= Len(s) /\ SubSeq(s, 1, Len(prefix)) = prefix

\* The loop over the indents: margin is None (have = FALSE) until the first
\* indent is seen and ends as the common prefix of the indents.
RECURSIVE Margin(_, _, _, _)
Margin(lines, i, have, margin) ==
    IF i > Len(lines)
    THEN margin
    ELSE IF \A c \in 1..Len(lines[i]) : lines[i][c] \in Blank
         THEN Margin(lines, i + 1, have, margin)
         ELSE LET indent == LeadingBlank(lines[i])
              IN  Margin(lines, i + 1, TRUE,
                         IF have THEN CommonPrefix(margin, indent) ELSE indent)

dedent(text) ==
    LET lines == Split(text, "\n")
        \* _whitespace_only_re.sub('', text)
        cleaned == [i \in 1..Len(lines) |->
                       IF \A c \in 1..Len(lines[i]) : lines[i][c] \in Blank
                       THEN <<>> ELSE lines[i]]
        margin == Margin(cleaned, 1, FALSE, <<>>)
    IN  IF margin = <<>>
        THEN Join(cleaned, "\n")
        ELSE Join([i \in 1..Len(cleaned) |->
                      IF StartsWith(cleaned[i], margin)
                      THEN SubSeq(cleaned[i], Len(margin) + 1, Len(cleaned[i]))
                      ELSE cleaned[i]], "\n")

(***************************************************************************)
(* The from_dict conversions, one per node type.                           *)
(***************************************************************************)
\* cls(name1=arg1, name2=arg2, ...): the arguments are evaluated in order, the
\* first that raises decides, and otherwise the node holds their values.
Construct(names, a) ==
    IF AllOk(a)
    THEN Ok([k \in {names[i] : i \in 1..Len(names)} |->
                a[CHOOSE i \in 1..Len(names) : names[i] = k].v])
    ELSE FirstFailure(a)

\* The conversions of a field's value, lifted to what evaluating it gave.
stripped(r) == IF r.ok THEN Ok(strip(r.v)) ELSE r

raw_string(r) == IF r.ok THEN Ok(_to_raw_string(r.v)) ELSE r

dedented(r) == IF r.ok THEN Ok(dedent(r.v)) ELSE r

Location_from_dict(data) ==
    Construct(<<"column", "line">>, <<Item(data, "column"), Item(data, "line")>>)

Comment_from_dict(data) ==
    Construct(<<"location", "text">>,
              <<Built("Location", Item(data, "location")), Item(data, "text")>>)

Cell_from_dict(data) ==
    Construct(<<"location", "value">>,
              <<Built("Location", Item(data, "location")),
                raw_string(Item(data, "value"))>>)

Row_from_dict(data) ==
    Construct(<<"id", "location", "cells">>,
              <<Item(data, "id"),
                Built("Location", Item(data, "location")),
                ListOf("Cell", Item(data, "cells"))>>)

ExamplesTable_from_dict(data) ==
    Construct(<<"location", "name", "table_header", "table_body">>,
              <<Built("Location", Item(data, "location")),
                Ok(Get(data, "name")),
                Optional("Row", data, "tableHeader"),
                ListOf("Row", GetOr(data, "tableBody", <<>>))>>)

DataTable_from_dict(data) ==
    Construct(<<"location", "rows">>,
              <<Built("Location", Item(data, "location")),
                ListOf("Row", GetOr(data, "rows", <<>>))>>)

DocString_from_dict(data) ==
    Construct(<<"content", "delimiter", "location">>,
              <<dedented(Item(data, "content")),
                Item(data, "delimiter"),
                Built("Location", Item(data, "location"))>>)

Step_from_dict(data) ==
    Construct(<<"id", "keyword", "keyword_type", "location", "text", "data_table",
                "doc_string">>,
              <<Item(data, "id"),
                stripped(Item(data, "keyword")),
                Item(data, "keywordType"),
                Built("Location", Item(data, "location")),
                Item(data, "text"),
                Optional("DataTable", data, "dataTable"),
                Optional("DocString", data, "docString")>>)

Tag_from_dict(data) ==
    Construct(<<"id", "location", "name">>,
              <<Item(data, "id"),
                Built("Location", Item(data, "location")),
                Item(data, "name")>>)

Scenario_from_dict(data) ==
    Construct(<<"id", "keyword", "location", "name", "description", "steps", "tags",
                "examples">>,
              <<Item(data, "id"),
                Item(data, "keyword"),
                Built("Location", Item(data, "location")),
                Item(data, "name"),
                Item(data, "description"),
                ListOf("Step", Item(data, "steps")),
                ListOf("Tag", Item(data, "tags")),
                ListOf("ExamplesTable", Item(data, "examples"))>>)

Background_from_dict(data) ==
    Construct(<<"id", "keyword", "location", "name", "description", "steps">>,
              <<Item(data, "id"),
                Item(data, "keyword"),
                Built("Location", Item(data, "location")),
                Item(data, "name"),
                Item(data, "description"),
                ListOf("Step", Item(data, "steps"))>>)

Rule_from_dict(data) ==
    Construct(<<"id", "keyword", "location", "name", "description", "tags",
                "children">>,
              <<Item(data, "id"),
                Item(data, "keyword"),
                Built("Location", Item(data, "location")),
                Item(data, "name"),
                Item(data, "description"),
                ListOf("Tag", Item(data, "tags")),
                ListOf("Child", Item(data, "children"))>>)

Child_from_dict(data) ==
    Construct(<<"background", "rule", "scenario">>,
              <<Optional("Background", data, "background"),
                Optional("Rule", data, "rule"),
                Optional("Scenario", data, "scenario")>>)

Feature_from_dict(data) ==
    Construct(<<"keyword", "location", "tags", "name", "description", "children">>,
              <<Item(data, "keyword"),
                Built("Location", Item(data, "location")),
                ListOf("Tag", Item(data, "tags")),
                Item(data, "name"),
                Item(data, "description"),
                ListOf("Child", Item(data, "children"))>>)

GherkinDocument_from_dict(data) ==
    Construct(<<"feature", "comments">>,
              <<Built("Feature", Item(data, "feature")),
                ListOf("Comment", Item(data, "comments"))>>)

NodeTypes ==
    {"Location", "Comment", "Cell", "Row", "ExamplesTable", "DataTable", "DocString",
     "Step", "Tag", "Scenario", "Rule", "Background", "Child", "Feature",
     "GherkinDocument"}

from_dict(cls, data) ==
    CASE cls = "Location" -> Location_from_dict(data)
      [] cls = "Comment" -> Comment_from_dict(data)
      [] cls = "Cell" -> Cell_from_dict(data)
      [] cls = "Row" -> Row_from_dict(data)
      [] cls = "ExamplesTable" -> ExamplesTable_from_dict(data)
      [] cls = "DataTable" -> DataTable_from_dict(data)
      [] cls = "DocString" -> DocString_from_dict(data)
      [] cls = "Step" -> Step_from_dict(data)
      [] cls = "Tag" -> Tag_from_dict(data)
      [] cls = "Scenario" -> Scenario_from_dict(data)
      [] cls = "Rule" -> Rule_from_dict(data)
      [] cls = "Background" -> Background_from_dict(data)
      [] cls = "Child" -> Child_from_dict(data)
      [] cls = "Feature" -> Feature_from_dict(data)
      [] cls = "GherkinDocument" -> GherkinDocument_from_dict(data)

(***************************************************************************)
(* The raw trees the conversions are tried on.  A shape gives the number   *)
(* of tags (and examples), the number of steps and the kinds of the        *)
(* feature's children; node n's parts are numbered 10n+1..10n+9, so every  *)
(* id, name and line is distinct and tells the node's place.  A mutation   *)
(* removes one field from (or empties one optional field of) every node of *)
(* one type: what a mismatched parser version would hand over.             *)
(***************************************************************************)
NoMutation == [type |-> "none", field |-> "none", how |-> "none"]

EmptyMap == [k \in {} |-> None]

Mutated(m, type, node) ==
    IF m.type # type \/ m.field \notin DOMAIN node
    THEN node
    ELSE IF m.how = "missing"
         THEN [k \in DOMAIN node \ {m.field} |-> node[k]]
         ELSE [k \in DOMAIN node |->
                  IF k # m.field THEN node[k]
                  ELSE IF m.field = "name" THEN "" ELSE EmptyMap]

RawLocation(m, line, column) ==
    Mutated(m, "Location", [line |-> line, column |-> column])

RawComment(m, n) ==
    Mutated(m, "Comment", [location |-> RawLocation(m, n, 1), text |-> "# c" \o Str(n)])

RawCell(m, n, c, value) ==
    Mutated(m, "Cell", [location |-> RawLocation(m, n, 4 * c + 1), value |-> value])

RawRow(m, n, values) ==
    Mutated(m, "Row",
        [id |-> Str(n), location |-> RawLocation(m, n, 3),
         cells |-> [c \in 1..Len(values) |-> RawCell(m, n, c, values[c])]])

RawDataTable(m, n) ==
    Mutated(m, "DataTable",
        [location |-> RawLocation(m, 10 * n + 1, 3),
         rows |-> <<RawRow(m, 10 * n + 1, << <<"h">>, <<"k">> >>),
                    RawRow(m, 10 * n + 2, << <<"a", "\\", "n">>, <<>> >>)>>])

RawDocString(m, n) ==
    Mutated(m, "DocString",
        [content |-> <<" ", " ", "x", "\n", " ", "\n", " ", " ", " ", "y">>,
         delimiter |-> "\"\"\"",
         location |-> RawLocation(m, 10 * n + 1, 3)])

\* The first examples table of a scenario has a name, a header and a body;
\* the others are bare.
RawExamplesTable(m, n, j) ==
    Mutated(m, "ExamplesTable",
        IF j = 1
        THEN [location |-> RawLocation(m, n, 3),
              name |-> "examples" \o Str(n),
              tableHeader |-> RawRow(m, 10 * n + 1, << <<"h">> >>),
              tableBody |-> <<RawRow(m, 10 * n + 2, << <<"1">> >>),
                              RawRow(m, 10 * n + 3, << <<"\\">> >>)>>]
        ELSE [location |-> RawLocation(m, n, 3), tableBody |-> <<>>])

\* The first step of a block carries a data table, the second a doc string.
RawStep(m, n, j) ==
    LET base == [id |-> Str(n),
                 keyword |-> IF j = 1 THEN <<"G", "i", "v", "e", "n", " ">>
                             ELSE IF j = 2 THEN <<"A", "n", "d", " ">>
                             ELSE <<"*", " ">>,
                 keywordType |-> IF j = 1 THEN "Context" ELSE "Conjunction",
                 location |-> RawLocation(m, n, 5),
                 text |-> "step " \o Str(n)]
    IN  Mutated(m, "Step",
            IF j = 1 THEN [k \in DOMAIN base \cup {"dataTable"} |->
                              IF k = "dataTable" THEN RawDataTable(m, n) ELSE base[k]]
            ELSE IF j = 2 THEN [k \in DOMAIN base \cup {"docString"} |->
                                   IF k = "docString" THEN RawDocString(m, n) ELSE base[k]]
            ELSE base)

RawTag(m, n) ==
    Mutated(m, "Tag",
        [id |-> Str(n), location |-> RawLocation(m, n, 1), name |-> "@tag" \o Str(n)])

RawTags(m, n, sh) == [i \in 1..sh.tags |-> RawTag(m, 10 * n + i)]

RawSteps(m, n, sh) == [j \in 1..sh.steps |-> RawStep(m, 10 * n + 3 + j, j)]

RawScenario(m, n, sh) ==
    Mutated(m, "Scenario",
        [id |-> Str(n), keyword |-> "Scenario", location |-> RawLocation(m, n, 3),
         name |-> "scenario " \o Str(n), description |-> "about " \o Str(n),
         steps |-> RawSteps(m, n, sh), tags |-> RawTags(m, n, sh),
         examples |-> [j \in 1..sh.tags |-> RawExamplesTable(m, 10 * n + 6 + j, j)]])

RawBackground(m, n, sh) ==
    Mutated(m, "Background",
        [id |-> Str(n), keyword |-> "Background", location |-> RawLocation(m, n, 3),
         name |-> "background " \o Str(n), description |-> "about " \o Str(n),
         steps |-> RawSteps(m, n, sh)])

RECURSIVE RawRule(_, _, _, _)
RECURSIVE RawChild(_, _, _, _, _)

\* A rule holds a background, a scenario and, down to MaxRuleDepth, a rule.
RawRule(m, n, sh, depth) ==
    LET kinds == <<"background", "scenario">>
                    \o (IF depth < MaxRuleDepth THEN <<"rule">> ELSE <<>>)
    IN  Mutated(m, "Rule",
            [id |-> Str(n), keyword |-> "Rule", location |-> RawLocation(m, n, 3),
             name |-> "rule " \o Str(n), description |-> "about " \o Str(n),
             tags |-> RawTags(m, n, sh),
             children |-> [i \in 1..Len(kinds) |->
                              RawChild(m, 10 * n + 6 + i, kinds[i], sh, depth + 1)]])

RawChild(m, n, kind, sh, depth) ==
    Mutated(m, "Child",
        CASE kind = "background" -> [background |-> RawBackground(m, n, sh)]
          [] kind = "rule" -> [rule |-> RawRule(m, n, sh, depth)]
          [] kind = "scenario" -> [scenario |-> RawScenario(m, n, sh)])

RawFeature(m, n, sh) ==
    Mutated(m, "Feature",
        [keyword |-> "Feature", location |-> RawLocation(m, n, 1),
         tags |-> RawTags(m, n, sh),
         name |-> "feature " \o Str(n), description |-> "about " \o Str(n),
         children |-> [i \in 1..Len(sh.children) |->
                          RawChild(m, 10 * n + 6 + i, sh.children[i], sh, 1)]])

RawGherkinDocument(m, sh) ==
    Mutated(m, "GherkinDocument",
        [feature |-> RawFeature(m, 1, sh),
         comments |-> [i \in 1..sh.tags |-> RawComment(m, 90 + i)]])

ChildKinds == {"background", "rule", "scenario"}

Shapes ==
    [tags : 0..MaxTags, steps : 0..MaxSteps,
     children : UNION {[1..k -> ChildKinds] : k \in 0..MaxChildren}]

\* The shape the single nodes are cut from: every collection populated.
FullShape == [tags |-> MaxTags, steps |-> MaxSteps, children |-> <<"background", "scenario", "rule">>]

RawNode(cls, m, sh) ==
    CASE cls = "Location" -> RawLocation(m, 1, 1)
      [] cls = "Comment" -> RawComment(m, 1)
      [] cls = "Cell" -> RawCell(m, 1, 1, <<"a", "\\">>)
      [] cls = "Row" -> RawRow(m, 1, << <<"a">>, <<"b">> >>)
      [] cls = "ExamplesTable" -> RawExamplesTable(m, 1, 1)
      [] cls = "DataTable" -> RawDataTable(m, 1)
      [] cls = "DocString" -> RawDocString(m, 1)
      [] cls = "Step" -> RawStep(m, 1, 1)
      [] cls = "Tag" -> RawTag(m, 1)
      [] cls = "Scenario" -> RawScenario(m, 1, sh)
      [] cls = "Rule" -> RawRule(m, 1, sh, 1)
      [] cls = "Background" -> RawBackground(m, 1, sh)
      [] cls = "Child" -> RawChild(m, 1, "scenario", sh, 1)
      [] cls = "Feature" -> RawFeature(m, 1, sh)
      [] cls = "GherkinDocument" -> RawGherkinDocument(m, sh)

\* The keys each from_dict reads.
FieldsOf(cls) ==
    CASE cls = "Location" -> {"column", "line"}
      [] cls = "Comment" -> {"location", "text"}
      [] cls = "Cell" -> {"location", "value"}
      [] cls = "Row" -> {"id", "location", "cells"}
      [] cls = "ExamplesTable" -> {"location", "name", "tableHeader", "tableBody"}
      [] cls = "DataTable" -> {"location", "rows"}
      [] cls = "DocString" -> {"content", "delimiter", "location"}
      [] cls = "Step" -> {"id", "keyword", "keywordType", "location", "text",
                          "dataTable", "docString"}
      [] cls = "Tag" -> {"id", "location", "name"}
      [] cls = "Scenario" -> {"id", "keyword", "location", "name", "description",
                              "steps", "tags", "examples"}
      [] cls = "Rule" -> {"id", "keyword", "location", "name", "description", "tags",
                          "children"}
      [] cls = "Background" -> {"id", "keyword", "location", "name", "description",
                                "steps"}
      [] cls = "Child" -> {"background", "rule", "scenario"}
      [] cls = "Feature" -> {"keyword", "location", "tags", "name", "description",
                             "children"}
      [] cls = "GherkinDocument" -> {"feature", "comments"}

\* The keys read with data.get and no default.
OptionalKeys(cls) ==
    CASE cls = "ExamplesTable" -> {"name", "tableHeader"}
      [] cls = "Step" -> {"dataTable", "docString"}
      [] cls = "Child" -> {"background", "rule", "scenario"}
      [] OTHER -> {}

Mutations ==
    {[type |-> cls, field |-> f, how |-> "missing"] : <<cls, f>> \in
        UNION {{<<c, g>> : g \in FieldsOf(c)} : c \in NodeTypes}}
    \cup {[type |-> cls, field |-> f, how |-> "empty"] : <<cls, f>> \in
        UNION {{<<c, g>> : g \in OptionalKeys(c)} : c \in NodeTypes}}

Pending == [pending |-> TRUE]

\* Either a whole document as the parser returns it, of any shape, or one
\* node of any type, whole or with one mutation.
BuilderInit ==
    /\ \/ \E sh \in Shapes :
            raw = [cls |-> "GherkinDocument", mutation |-> NoMutation,
                   data |-> RawGherkinDocument(NoMutation, sh)]
       \/ \E cls \in NodeTypes, m \in Mutations \cup {NoMutation} :
            raw = [cls |-> cls, mutation |-> m, data |-> RawNode(cls, m, FullShape)]
    /\ built = Pending
    /\ table = IdleValue /\ tcall = IdleValue
    /\ args = IdleValue /\ raised = IdleValue
    /\ fs = IdleValue /\ cache = IdleValue /\ call = IdleValue

\* cls.from_dict(data)
FromDict ==
    /\ built = Pending
    /\ built' = from_dict(raw.cls, raw.data)
    /\ UNCHANGED <<raw, tableVars, classifierVars, loaderVars>>

BuilderNext == FromDict

BuilderSpec == BuilderInit /\ [][BuilderNext]_vars

(***************************************************************************)
(* The error classifier.  A diagnostic is a sequence of tokens: the pieces *)
(* the patterns spell out ("expected:", "got '", a keyword, the closing    *)
(* "'"), "\n", and other text.                                             *)
(***************************************************************************)
\* One entry's regular expression, expected:.*got '<one of words>.*', by the
\* alternatives it lists after got ' (none: expected:.*got '.*').
Pattern(words) == [words |-> words]

ERROR_PATTERNS ==
    <<[pattern |-> Pattern({"Feature"}),
       exception_class |-> "FeatureError",
       message |-> "Multiple features are not allowed in a single feature file."],
      [pattern |-> Pattern({"Given", "When", "Then", "And", "But"}),
       exception_class |-> "FeatureError",
       message |-> "Step definition outside of a Scenario or a Background."],
      [pattern |-> Pattern({"Background"}),
       exception_class |-> "BackgroundError",
       message |-> "Multiple 'Background' sections detected. Only one 'Background' is allowed per feature."],
      [pattern |-> Pattern({"Scenario"}),
       exception_class |-> "ScenarioError",
       message |-> "Misplaced or incorrect 'Scenario' keyword. Ensure it's correctly placed. There might be a missing Feature section."],
      [pattern |-> Pattern({"Given"}),
       exception_class |-> "StepError",
       message |-> "Improper step keyword detected. Ensure correct order and indentation for steps (Given, When, Then, etc.)."],
      [pattern |-> Pattern({"Rule"}),
       exception_class |-> "RuleError",
       message |-> "Misplaced or incorrectly formatted 'Rule'. Ensure it follows the feature structure."],
      [pattern |-> Pattern({}),
       exception_class |-> "TokenError",
       message |-> "Unexpected token found. Check Gherkin syntax near the reported error."]>>

\* pattern.search(error_line): somewhere "expected:", later "got '" directly
\* followed by one of the words (if the pattern lists any), later a "'".
search(pattern, error_line) ==
    \E e \in 1..Len(error_line) :
        /\ error_line[e] = "expected:"
        /\ \E g \in (e + 1)..Len(error_line) :
              /\ error_line[g] = "got '"
              /\ \E q \in (g + 1)..Len(error_line) :
                    /\ error_line[q] = "'"
                    /\ pattern.words # {} =>
                          g + 1 < q /\ error_line[g + 1] \in pattern.words

NoMatch == [line |-> 0, rule |-> 0]

\* The nested loops of handle_gherkin_parser_error from line l and rule r on:
\* the first (line, rule) whose pattern matches, lines outermost.
RECURSIVE first_match_from(_, _, _)
first_match_from(error_lines, l, r) ==
    IF l > Len(error_lines)
    THEN NoMatch
    ELSE IF r > Len(ERROR_PATTERNS)
         THEN first_match_from(error_lines, l + 1, 1)
         ELSE IF search(ERROR_PATTERNS[r].pattern, error_lines[l])
              THEN [line |-> l, rule |-> r]
              ELSE first_match_from(error_lines, l, r + 1)

\* A plausible slip: the loops swapped, rules outermost.
RECURSIVE first_match_rule_major(_, _, _)
first_match_rule_major(error_lines, l, r) ==
    IF r > Len(ERROR_PATTERNS)
    THEN NoMatch
    ELSE IF l > Len(error_lines)
         THEN first_match_rule_major(error_lines, 1, r + 1)
         ELSE IF search(ERROR_PATTERNS[r].pattern, error_lines[l])
              THEN [line |-> l, rule |-> r]
              ELSE first_match_rule_major(error_lines, l + 1, r)

first_match_RuleMajor(error_lines) == first_match_rule_major(error_lines, 1, 1)

first_match(error_lines) == first_match_from(error_lines, 1, 1)

Returned == [raised |-> FALSE]

\* raise exception_class(message, line, line_content, filename) [from cause]
Raise(exception_class, message, line, line_content, filename, cause) ==
    [raised |-> TRUE, exception_class |-> exception_class, message |-> message,
     line |-> line, line_content |-> line_content, filename |-> filename,
     cause |-> cause]

\* A plausible slip: the original exception is not chained.
handle_gherkin_parser_error_Unchained(raw_error, line, line_content, filename, original_exception) ==
    LET m == first_match(splitlines(raw_error))
    IN  IF m = NoMatch
        THEN Returned
        ELSE Raise(ERROR_PATTERNS[m.rule].exception_class,
                   ERROR_PATTERNS[m.rule].message, line, line_content, filename, None)

\* handle_gherkin_parser_error: raises the first matching entry's exception,
\* chained to original_exception when that is given, and returns otherwise.
handle_gherkin_parser_error(raw_error, line, line_content, filename, original_exception) ==
    LET m == first_match(splitlines(raw_error))
    IN  IF m = NoMatch
        THEN Returned
        ELSE Raise(ERROR_PATTERNS[m.rule].exception_class,
                   ERROR_PATTERNS[m.rule].message, line, line_content, filename,
                   IF original_exception # None THEN original_exception ELSE None)

(***************************************************************************)
(* The diagnostics the classifier is tried on: up to MaxDiagLines lines    *)
(* joined by "\n", each one of: the parser's heading; a well-formed        *)
(* "expected: ..., got '<word> ...'" line for each word; and lines that    *)
(* lack a piece of the pattern or have the pieces out of place.            *)
(***************************************************************************)
GotWords ==
    {"Feature", "Given", "When", "Then", "And", "But", "Background", "Scenario",
     "Rule", "Examples"}

DiagLines ==
    {<<"(1:1):", "expected:", "#EOF,", "got '", w, "x", "'">> : w \in GotWords}
    \cup {<<"Parser errors:">>,
          <<"got '", "Feature", "'", "expected:">>,
          <<"expected:", "got '", "Scenario">>,
          <<"expected:", "got '", "x", "Rule", "'">>,
          <<"expected:", "got '", "'">>,
          <<>>}

Diagnostics ==
    {Join(ls, "\n") : ls \in UNION {[1..n -> DiagLines] : n \in 0..MaxDiagLines}}

\* The exception the parser raised, as the classifier's caller holds it.
AnException == [type |-> "CompositeParserException"]

ClassifierInit ==
    /\ args \in [raw_error : Diagnostics,
                 line : {1, 2},
                 line_content : {<<"Feature: a">>, <<"Given b">>},
                 filename : {"a.feature", "b.feature"},
                 original_exception : {None, AnException}]
    /\ raised = Pending
    /\ table = IdleValue /\ tcall = IdleValue
    /\ raw = IdleValue /\ built = IdleValue
    /\ fs = IdleValue /\ cache = IdleValue /\ call = IdleValue

\* handle_gherkin_parser_error(raw_error, line, line_content, filename, e)
HandleGherkinParserError ==
    /\ raised = Pending
    /\ raised' = handle_gherkin_parser_error(args.raw_error, args.line,
                     args.line_content, args.filename, args.original_exception)
    /\ UNCHANGED <<args, tableVars, builderVars, loaderVars>>

ClassifierNext == HandleGherkinParserError

ClassifierSpec == ClassifierInit /\ [][ClassifierNext]_vars

(***************************************************************************)
(* Properties of the classifier, checked under ClassifierSpec.             *)
(***************************************************************************)
\* The (line, rule) pairs of a diagnostic in which the rule matches the line.
Matches(error_lines) ==
    {lr \in (1..Len(error_lines)) \X (1..Len(ERROR_PATTERNS)) :
        search(ERROR_PATTERNS[lr[2]].pattern, error_lines[lr[1]])}

\* r*: the lowest-index rule matching l*, the earliest line matched by any
\* rule.
LowestRule(error_lines) ==
    LET matches == Matches(error_lines)
        earliest == Min({lr[1] : lr \in matches})
    IN  Min({lr[2] : lr \in {m \in matches : m[1] = earliest}})

\* C2: for every diagnostic in which some line matches some entry of
\* ERROR_PATTERNS, handle_gherkin_parser_error raises the error of the
\* lowest-index rule matching the earliest matched line, with that rule's
\* hint message and the caller's line, line_content and filename unchanged.
C2_LineMajorFirstMatch ==
    raised # Pending =>
        LET error_lines == splitlines(args.raw_error)
        IN  Matches(error_lines) # {} =>
                LET rule == ERROR_PATTERNS[LowestRule(error_lines)]
                IN  /\ raised.raised
                    /\ raised.exception_class = rule.exception_class
                    /\ raised.message = rule.message
                    /\ raised.line = args.line
                    /\ raised.line_content = args.line_content
                    /\ raised.filename = args.filename

\* A diagnostic whose first line is matched by the catch-all rule only and
\* whose second line is matched by the first rule has been classified: as the
\* catch-all's TokenError.
C2_Witness ==
    /\ raised # Pending
    /\ LET error_lines == splitlines(args.raw_error)
       IN  /\ Len(error_lines) = 2
           /\ <<1, 7>> \in Matches(error_lines)
           /\ \A r \in 1..6 : <<1, r>> \notin Matches(error_lines)
           /\ <<2, 1>> \in Matches(error_lines)
    /\ raised.raised
    /\ raised.exception_class = "TokenError"

\* C10: for each of the seven entries of ERROR_PATTERNS there is a diagnostic
\* line whose first matching entry is that one, so that the call at hand,
\* given that line, raises that entry's category.
C10_EveryCategoryRaised ==
    \A r \in 1..Len(ERROR_PATTERNS) :
        \E error_line \in DiagLines :
            handle_gherkin_parser_error(error_line, args.line, args.line_content,
                                        args.filename, args.original_exception)
                = Raise(ERROR_PATTERNS[r].exception_class, ERROR_PATTERNS[r].message,
                        args.line, args.line_content, args.filename,
                        args.original_exception)

(***************************************************************************)
(* The document loader.  A file is its lines (each a sequence of tokens,   *)
(* without the newline); linecache is the standard library's module-level  *)
(* cache, which get_gherkin_document reads the offending line through.     *)
(***************************************************************************)
\* linecache.updatecache: the lines of the file as it is now, each ending in
\* "\n".
updatecache(files, filename) ==
    [i \in 1..Len(files[filename]) |-> files[filename][i] \o <<"\n">>]

\* linecache.getlines: the cached lines when the file name is cached (no
\* check that the file is still the same), the file's lines otherwise.
getlines(lines_cache, files, filename) ==
    IF filename \in DOMAIN lines_cache
    THEN lines_cache[filename]
    ELSE updatecache(files, filename)

\* linecache.getline(filename, lineno): the line, or '' when out of range.
getline(lines_cache, files, filename, lineno) ==
    LET lines == getlines(lines_cache, files, filename)
    IN  IF 1 <= lineno /\ lineno <= Len(lines) THEN lines[lineno] ELSE <<>>

\* The cache after linecache.getline(filename, ...).
cache_after(lines_cache, files, filename) ==
    [f \in DOMAIN lines_cache \cup {filename} |->
        IF f \in DOMAIN lines_cache THEN lines_cache[f] ELSE updatecache(files, f)]

\* The except branch of get_gherkin_document: the classified error, or the
\* generic GherkinParseError when handle_gherkin_parser_error returns.
on_composite_error(e, line_content, abs_filename) ==
    LET message == e.args[1]
        line == e.errors[1].location.line
        handled == handle_gherkin_parser_error(message, line, line_content,
                                               abs_filename, e)
    IN  IF handled.raised
        THEN handled
        ELSE Raise("GherkinParseError", <<"Unknown parsing error: ">> \o message,
                   line, line_content, abs_filename, e)

(***************************************************************************)
(* The files and what the external parser may answer.  The parser is not   *)
(* part of the program: any tree, or a CompositeParserException with any   *)
(* message and one to MaxSubErrors sub-errors on consecutive lines from    *)
(* any line of the text (or the line after its end) on.                    *)
(***************************************************************************)
Paths == {"a.feature", "b.feature"}

\* The file that gets rewritten between calls; the other one stays as it is.
RewrittenPath == "a.feature"

LineTexts == {<<"Feature: a">>, <<"Given b">>}

FileContents == UNION {[1..n -> LineTexts] : n \in 1..MaxFileLines}

FixedContent == << <<"Feature: a">> >>

ParserMessages ==
    {Join(<<<<"Parser errors:">>, l>>, "\n") :
        l \in {<<"(2:1):", "expected:", "#EOF,", "got '", "Feature", ":", "'">>,
               <<"(2:1):", "expected:", "#EOF,", "got '", "Examples", ":", "'">>,
               <<"(2:1):", "inconsistent cell count within the table">>}}

SubErrors(text) ==
    {[i \in 1..k |-> [location |-> [line |-> n + i - 1, column |-> 1]]] :
        n \in 1..(Len(text) + 1), k \in 1..MaxSubErrors}

CompositeParserException(message, errors) ==
    [type |-> "CompositeParserException", args |-> <<message>>, errors |-> errors]

ParserTrees ==
    {RawGherkinDocument(NoMutation, [tags |-> 1, steps |-> 0, children |-> <<>>])}

ParserAnswers(text) ==
    {[ok |-> TRUE, gherkin_data |-> t] : t \in ParserTrees}
    \cup {[ok |-> FALSE, e |-> CompositeParserException(m, errs)] :
            m \in ParserMessages, errs \in SubErrors(text)}

EmptyCache == [f \in {} |-> <<>>]

LoaderInit ==
    /\ fs \in {[f \in Paths |-> IF f = RewrittenPath THEN c ELSE FixedContent] :
                 c \in FileContents}
    /\ cache = EmptyCache
    /\ call = [pc |-> "none"]
    /\ table = IdleValue /\ tcall = IdleValue
    /\ raw = IdleValue /\ built = IdleValue
    /\ args = IdleValue /\ raised = IdleValue

\* Something outside the program rewrites the file.
Rewrite ==
    /\ \E c \in FileContents :
          /\ c # fs[RewrittenPath]
          /\ fs' = [fs EXCEPT ![RewrittenPath] = c]
    /\ UNCHANGED <<cache, call, tableVars, builderVars, classifierVars>>

\* get_gherkin_document(abs_filename): read the file, parse the text, and
\* either build the AST or raise the classified (or generic) error.
GetGherkinDocument ==
    \E abs_filename \in Paths :
        LET feature_file_text == fs[abs_filename]
        IN  \E answer \in ParserAnswers(feature_file_text) :
              /\ IF answer.ok
                 THEN /\ call' = [pc |-> "done", abs_filename |-> abs_filename,
                                  feature_file_text |-> feature_file_text,
                                  parser |-> answer,
                                  outcome |->
                                      LET doc == GherkinDocument_from_dict(answer.gherkin_data)
                                      IN  IF doc.ok
                                          THEN [raised |-> FALSE, returned |-> doc.v]
                                          ELSE [raised |-> TRUE,
                                                exception_class |-> doc.exc,
                                                key |-> doc.key]]
                      /\ cache' = cache
                 ELSE LET line == answer.e.errors[1].location.line
                          line_content ==
                              rstrip_chars(getline(cache, fs, abs_filename, line), {"\n"})
                      IN  /\ call' = [pc |-> "done", abs_filename |-> abs_filename,
                                      feature_file_text |-> feature_file_text,
                                      parser |-> answer,
                                      outcome |-> on_composite_error(answer.e,
                                                      line_content, abs_filename)]
                          /\ cache' = cache_after(cache, fs, abs_filename)
              /\ UNCHANGED <<fs, tableVars, builderVars, classifierVars>>

LoaderNext == Rewrite \/ GetGherkinDocument

LoaderSpec == LoaderInit /\ [][LoaderNext]_vars

(***************************************************************************)
(* Properties of the AST builder, checked under BuilderSpec.               *)
(***************************************************************************)
RECURSIVE Flatten(_)
Flatten(seqs) == IF seqs = <<>> THEN <<>> ELSE Head(seqs) \o Flatten(Tail(seqs))

\* s without its leading and trailing whitespace, said without recursion.
Trimmed(s) ==
    LET solid == {i \in 1..Len(s) : s[i] \notin {" ", "\t", "\n", "\r"}}
    IN  IF solid = {} THEN <<>>
        ELSE SubSeq(s, CHOOSE i \in solid : \A j \in solid : i <= j,
                       CHOOSE i \in solid : \A j \in solid : j <= i)

\* The Tags, Steps, Scenarios, Rules and Backgrounds of a raw tree in the
\* order of its `tags`, `steps` and `children` collections, each with its
\* fields; trim says whether a Step's keyword is expected trimmed.
RawTagNodes(tags) ==
    [i \in 1..Len(tags) |->
        [kind |-> "Tag", id |-> tags[i].id, name |-> tags[i].name,
         line |-> tags[i].location.line, column |-> tags[i].location.column]]

RawStepNodes(trim, steps) ==
    [i \in 1..Len(steps) |->
        [kind |-> "Step", id |-> steps[i].id, keyword |-> IF trim THEN Trimmed(steps[i].keyword) ELSE steps[i].keyword,
         keywordType |-> steps[i].keywordType, text |-> steps[i].text,
         line |-> steps[i].location.line, column |-> steps[i].location.column]]

RawHead(kind, d) ==
    [kind |-> kind, id |-> d.id, keyword |-> d.keyword, name |-> d.name,
     description |-> d.description, line |-> d.location.line,
     column |-> d.location.column]

RECURSIVE RawChildNodes(_, _)
RawChildNodes(trim, children) ==
    Flatten([i \in 1..Len(children) |->
        LET c == children[i]
        IN  IF "background" \in DOMAIN c
            THEN <<RawHead("Background", c.background)>>
                    \o RawStepNodes(trim, c.background.steps)
            ELSE IF "scenario" \in DOMAIN c
            THEN <<RawHead("Scenario", c.scenario)>>
                    \o RawTagNodes(c.scenario.tags)
                    \o RawStepNodes(trim, c.scenario.steps)
            ELSE <<RawHead("Rule", c.rule)>>
                    \o RawTagNodes(c.rule.tags)
                    \o RawChildNodes(trim, c.rule.children)])

RawNodes(trim, doc) ==
    RawTagNodes(doc.feature.tags) \o RawChildNodes(trim, doc.feature.children)

\* The same walk over the built AST.
AstTagNodes(tags) ==
    [i \in 1..Len(tags) |->
        [kind |-> "Tag", id |-> tags[i].id, name |-> tags[i].name,
         line |-> tags[i].location.line, column |-> tags[i].location.column]]

AstStepNodes(steps) ==
    [i \in 1..Len(steps) |->
        [kind |-> "Step", id |-> steps[i].id, keyword |-> steps[i].keyword,
         keywordType |-> steps[i].keyword_type, text |-> steps[i].text,
         line |-> steps[i].location.line, column |-> steps[i].location.column]]

RECURSIVE AstChildNodes(_)
AstChildNodes(children) ==
    Flatten([i \in 1..Len(children) |->
        LET c == children[i]
        IN  (IF c.background # None
             THEN <<RawHead("Background", c.background)>>
                     \o AstStepNodes(c.background.steps)
             ELSE <<>>)
            \o (IF c.rule # None
                THEN <<RawHead("Rule", c.rule)>> \o AstTagNodes(c.rule.tags)
                        \o AstChildNodes(c.rule.children)
                ELSE <<>>)
            \o (IF c.scenario # None
                THEN <<RawHead("Scenario", c.scenario)>>
                        \o AstTagNodes(c.scenario.tags)
                        \o AstStepNodes(c.scenario.steps)
                ELSE <<>>)])

AstNodes(doc) == AstTagNodes(doc.feature.tags) \o AstChildNodes(doc.feature.children)

\* A whole document, as the parser returns it, went through from_dict.
BuiltDocument ==
    /\ raw.cls = "GherkinDocument"
    /\ raw.mutation = NoMutation
    /\ built # Pending

AbsentMarked(cls) ==
    CASE cls = "ExamplesTable" -> {"name", "tableHeader"}
      [] cls = "Step" -> {"dataTable", "docString"}
      [] cls = "Child" -> {"background", "rule", "scenario"}
      [] OTHER -> {}

AstField(f) ==
    CASE f = "tableHeader" -> "table_header"
      [] f = "tableBody" -> "table_body"
      [] f = "dataTable" -> "data_table"
      [] f = "docString" -> "doc_string"
      [] f = "keywordType" -> "keyword_type"
      [] OTHER -> f

\* The keys from_dict reads with a default of [].
Defaulted(cls) ==
    CASE cls = "DataTable" -> {"rows"}
      [] cls = "ExamplesTable" -> {"tableBody"}
      [] OTHER -> {}

\* Absent-marked fields whose raw value is a map: missing or empty gives None.
AbsentGivesNone ==
    \A f \in AbsentMarked(raw.cls) \ {"name"} :
        (built.ok /\ (f \notin DOMAIN raw.data \/ DOMAIN raw.data[f] = {})) =>
            built.v[AstField(f)] = None

\* C8 as stated: from_dict fails with a missing-field error whenever the raw
\* map lacks a field not marked "|absent", rows of a DataTable and tableBody
\* of an ExamplesTable included, and never substitutes a default; the
\* absent-marked fields become the absent value when missing or empty.
C8_AsStated ==
    built # Pending =>
        /\ \A f \in FieldsOf(raw.cls) \ AbsentMarked(raw.cls) :
              f \notin DOMAIN raw.data => (~built.ok /\ built.exc = "KeyError")
        /\ AbsentGivesNone

\* C8, amended: from_dict fails with a missing-field error (a KeyError
\* naming the field) whenever the raw map lacks a field not marked "|absent",
\* except `rows` of a DataTable and `tableBody` of an ExamplesTable, for
\* which it substitutes the empty sequence; a missing ExamplesTable name, and
\* a missing or empty table_header, data_table, doc_string or Child variant,
\* becomes the absent value.
C8_MissingFields ==
    built # Pending =>
        /\ \A f \in (FieldsOf(raw.cls) \ AbsentMarked(raw.cls)) \ Defaulted(raw.cls) :
              f \notin DOMAIN raw.data => built = KeyError(f)
        /\ \A f \in Defaulted(raw.cls) :
              f \notin DOMAIN raw.data => (built.ok /\ built.v[AstField(f)] = <<>>)
        /\ AbsentGivesNone
        /\ (raw.cls = "ExamplesTable" /\ "name" \notin DOMAIN raw.data /\ built.ok) =>
              built.v.name = None

\* A Scenario map without `steps` was converted and the conversion raised.
C8_Witness ==
    /\ raw.cls = "Scenario"
    /\ "steps" \notin DOMAIN raw.data
    /\ built # Pending
    /\ ~built.ok

(***************************************************************************)
(* Properties of the document loader, checked under LoaderSpec.            *)
(***************************************************************************)
\* C3: whenever the parser signals a composite failure, get_gherkin_document
\* raises: the classified error when some diagnostic line matches some rule,
\* the generic GherkinParseError wrapping the original message otherwise;
\* either way with the first sub-error's line, the path passed to the call
\* and the CompositeParserException as its cause.
C3_CompositeFailureRaises ==
    (call.pc = "done" /\ ~call.parser.ok) =>
        LET e == call.parser.e
            error_lines == splitlines(e.args[1])
        IN  /\ call.outcome.raised
            /\ IF Matches(error_lines) # {}
               THEN LET rule == ERROR_PATTERNS[LowestRule(error_lines)]
                    IN  /\ call.outcome.exception_class = rule.exception_class
                        /\ call.outcome.message = rule.message
               ELSE /\ call.outcome.exception_class = "GherkinParseError"
                    /\ call.outcome.message = <<"Unknown parsing error: ">> \o e.args[1]
            /\ call.outcome.line = e.errors[1].location.line
            /\ call.outcome.filename = call.abs_filename
            /\ call.outcome.cause = e

\* A call whose parser reported two sub-errors under a diagnostic that a rule
\* matches has raised the classified error.
C3_Witness ==
    /\ call.pc = "done"
    /\ ~call.parser.ok
    /\ Len(call.parser.e.errors) = 2
    /\ Matches(splitlines(call.parser.e.args[1])) # {}
    /\ call.outcome.raised
    /\ call.outcome.exception_class = "FeatureError"
    /\ call.outcome.cause = call.parser.e

\* C9: the line text carried by the error of a failing call is line N (N the
\* reported line number) of the content this same call read, whatever calls
\* and rewrites came before.
C9_LineTextOfThisRead ==
    (call.pc = "done" /\ ~call.parser.ok
        /\ call.outcome.line \in 1..Len(call.feature_file_text)) =>
        call.outcome.line_content = call.feature_file_text[call.outcome.line]

=============================================================================
